---- MODULE Spec2Model ----
(***************************************************************************)
(* A model of the speed-test client (src/client.py) and server             *)
(* (src/server.py): the wire codec of the three messages, the discovery    *)
(* listener, the TCP and UDP transfer sessions of the client, the TCP and  *)
(* UDP handlers of the server and the client's orchestrator.               *)
(*                                                                         *)
(* A datagram is a record [bytes, pad]: bytes are its leading bytes, pad   *)
(* is the number of bytes that follow them.  The bytes that follow are the *)
(* random content of a Payload, which no code ever reads; only their       *)
(* number matters.  A datagram with pad > 0 has at least 21 leading bytes. *)
(*                                                                         *)
(* Time is counted in ticks of 0.1 s, per session: now is what time.time() *)
(* returns to that session's thread, relative to the session's start.      *)
(*                                                                         *)
(* srv is run_server: its place in the dispatch loop, the datagrams queued *)
(* on its UDP socket and its broadcaster thread.  The connections queued   *)
(* on its TCP socket are the open connections no handler was started for.  *)
(***************************************************************************)
EXTENDS Integers, Sequences, FiniteSets, TLC

VARIABLES cli, tcp, udp, conn, srvtcp, srvudp, srv

vars == <<cli, tcp, udp, conn, srvtcp, srvudp, srv>>

\* ------------------------------------------------------------- bounds

\* Sessions of each kind the user may ask for.
MaxConn == 1
\* The last tick of a session's clock that the model follows.
MaxTime == 16
\* Datagrams one UDP client session receives.
MaxDatagrams == 3
\* Datagrams a UDP client session receives from a sender that goes on sending.
MaxStream == 9

\* ---------------------------------------------------------- constants

CONST_SIZE == 1024
MTYPE_OFFER == 2
MTYPE_REQUEST == 3
MTYPE_PAYLOAD == 4
\* 0xabcddcba, as its four big-endian bytes (it does not fit TLC's integers).
MAGIC_COOKIE == <<171, 205, 220, 186>>
\* settimeout(0.3), in ticks.
RECV_TIMEOUT == 3
\* The idle gap of 1.5 s, in ticks.
IDLE_GAP == 15
\* struct.calcsize('!IBQQ')
HEADER_SIZE == 21
\* struct.calcsize('!IBHH')
OFFER_SIZE == 9
\* struct.calcsize('!IBQ')
REQUEST_SIZE == 13
\* burst_limit
BURST_LIMIT == 32

Min(a, b) == IF a < b THEN a ELSE b

\* The numbers of the sessions of one kind.
Sessions == 1 .. MaxConn

\* ---------------------------------------------------------- wire codec

RECURSIVE BigEndian(_)
\* The unsigned integer of a big-endian byte string.
BigEndian(s) ==
    IF s = <<>> THEN 0
    ELSE BigEndian(SubSeq(s, 1, Len(s) - 1)) * 256 + s[Len(s)]

\* struct.pack fields: B, H (16 bits), Q (64 bits; the values stay below 2^31).
PackB(v) == <<v>>
PackH(v) == <<v \div 256, v % 256>>
PackQ(v) ==
    <<0, 0, 0, 0, v \div 16777216, (v \div 65536) % 256, (v \div 256) % 256, v % 256>>

\* len(data)
DLen(d) == Len(d.bytes) + d.pad

\* struct.pack('!IBHH', cookie, type, udp_port, tcp_port)
PackOffer(cookie, type, udp_port, tcp_port) ==
    [bytes |-> cookie \o PackB(type) \o PackH(udp_port) \o PackH(tcp_port), pad |-> 0]

\* struct.pack('!IBQ', cookie, type, size)
PackRequest(cookie, type, size) ==
    [bytes |-> cookie \o PackB(type) \o PackQ(size), pad |-> 0]

\* struct.pack('!IBQQ', cookie, type, total, index) + payload of n bytes
PackPayload(cookie, type, total, index, n) ==
    [bytes |-> cookie \o PackB(type) \o PackQ(total) \o PackQ(index), pad |-> n]

\* struct.unpack('!IBQQ', data[:21]): struct.error when fewer than 21 bytes.
UnpackPayload(d) ==
    IF DLen(d) < HEADER_SIZE THEN [ok |-> FALSE]
    ELSE [ok |-> TRUE,
          magic_cookie |-> SubSeq(d.bytes, 1, 4),
          message_type |-> d.bytes[5],
          total_segments |-> BigEndian(SubSeq(d.bytes, 6, 13)),
          curr_segment |-> BigEndian(SubSeq(d.bytes, 14, 21))]

\* struct.unpack('!IBHH', data): struct.error unless exactly 9 bytes.
UnpackOffer(d) ==
    IF DLen(d) # OFFER_SIZE THEN [ok |-> FALSE]
    ELSE [ok |-> TRUE,
          magic_cookie |-> SubSeq(d.bytes, 1, 4),
          message_type |-> d.bytes[5],
          udp_port |-> BigEndian(SubSeq(d.bytes, 6, 7)),
          tcp_port |-> BigEndian(SubSeq(d.bytes, 8, 9))]

\* struct.unpack('!IBQ', data): struct.error unless exactly 13 bytes.
UnpackRequest(d) ==
    IF DLen(d) # REQUEST_SIZE THEN [ok |-> FALSE]
    ELSE [ok |-> TRUE,
          cookie |-> SubSeq(d.bytes, 1, 4),
          message_type |-> d.bytes[5],
          file_size_bytes |-> BigEndian(SubSeq(d.bytes, 6, 13))]

\* The rounding that counts a full last segment twice.
CeilSegmentsPlusOne(n) == n \div CONST_SIZE + 1

\* (n + 1024 - 1) // 1024
CeilSegments(n) == (n + CONST_SIZE - 1) \div CONST_SIZE

\* ------------------------------------------------- what the network holds

\* socket.recvfrom(bufsize): a longer datagram is cut to bufsize bytes.
RecvFrom(d, bufsize) ==
    IF DLen(d) <= bufsize THEN d
    ELSE [bytes |-> SubSeq(d.bytes, 1, Min(Len(d.bytes), bufsize)),
          pad |-> bufsize - Min(Len(d.bytes), bufsize)]

\* The segments process_udp_connection builds for file_size_bytes: segment
\* segment_index carries min(CONST_SIZE, remaining_bytes) bytes after the
\* header (the list is indexed from 1, the segments from 0).
SegmentsList(file_size_bytes) ==
    LET num_segments == CeilSegments(file_size_bytes)
    IN  [k \in 1 .. num_segments |->
           LET segment_index == k - 1
               remaining_bytes == file_size_bytes - segment_index * CONST_SIZE
               current_chunk_size == Min(CONST_SIZE, remaining_bytes)
           IN  PackPayload(MAGIC_COOKIE, MTYPE_PAYLOAD, num_segments, segment_index,
                           current_chunk_size)]

\* The datagrams of a server's reply to a request of size bytes, as a set.
ServerPayloads(size) == { SegmentsList(size)[k] : k \in 1 .. CeilSegments(size) }

\* Datagrams of other senders that may reach a UDP client socket: a wrong
\* cookie, a wrong type, one shorter than the Payload header, and Payloads
\* whose header does not describe this transfer.
BadCookie == PackPayload(<<171, 205, 220, 187>>, MTYPE_PAYLOAD, 0, 0, 8)
BadType == PackPayload(MAGIC_COOKIE, MTYPE_REQUEST, 7, 0, 8)
ShortDatagram == PackOffer(MAGIC_COOKIE, MTYPE_OFFER, 2000, 2001)
ForeignPayload == PackPayload(MAGIC_COOKIE, MTYPE_PAYLOAD, 1, 5, 16)
EmptyTransfer == PackPayload(MAGIC_COOKIE, MTYPE_PAYLOAD, 0, 0, 0)
RepeatedSegment == PackPayload(MAGIC_COOKIE, MTYPE_PAYLOAD, 3, 0, 16)

StrayDatagrams ==
    {BadCookie, BadType, ShortDatagram, ForeignPayload, EmptyTransfer, RepeatedSegment}

\* How long recvfrom may wait for a datagram: less than its timeout.
Waits == 0 .. RECV_TIMEOUT - 1

\* How long a thread may be held up between two statements: not at all, or
\* for the idle gap.
Lates == {0, IDLE_GAP}

\* ------------------------------------------------- UDP transfer client

NoResult == [kind |-> "none"]

\* The value of a variable that holds no datagram yet.
NoDatagram == [bytes |-> <<>>, pad |-> 0 - 1]

\* A session whose thread has not been started.  last_segment is the value
\* last_received took on the last pass that went on to record a segment; the
\* code keeps no such variable, the properties read it.
UdpIdle ==
    [pc |-> "idle", sock |-> "none", request |-> <<>>,
     server_ip |-> "", udp_port |-> 0, file_size |-> 0,
     received_data |-> NoDatagram, delivered |-> 0,
     total_segments |-> 0, segments_received |-> {}, bytes_received |-> 0,
     start_time |-> 0, last_received |-> 0, last_segment |-> 0, now |-> 0,
     outcome |-> "none", result |-> NoResult]

\* The keys of the segments_received dictionary, kept as <<index, size>> pairs.
Keys(segs) == { p[1] : p \in segs }

\* The except and finally of manage_udp_connection: the error is printed,
\* the socket (when one was made) is closed, the thread ends.
UdpAbort(u) ==
    [u EXCEPT !.pc = "done", !.outcome = "error",
              !.sock = IF u.sock = "open" THEN "closed" ELSE u.sock]

\* The statistics after the loop: total_segments = 0 makes the percentage
\* raise ZeroDivisionError.  The percentage is pct_num / pct_den, the speed
\* bytes_received * 8 / total_time.
UdpStatistics(u) ==
    IF u.total_segments = 0 THEN UdpAbort(u)
    ELSE [u EXCEPT !.pc = "done", !.outcome = "result", !.sock = "closed",
                   !.result = [kind |-> "udp",
                               total_time |-> u.now - u.start_time,
                               bytes_received |-> u.bytes_received,
                               pct_num |-> Cardinality(Keys(u.segments_received)) * 100,
                               pct_den |-> u.total_segments]]

\* The update without its test: every arrival is counted.
TrackSegmentAlways(u, curr_segment, data_size) ==
    [u EXCEPT !.segments_received = @ \cup {<<curr_segment, data_size>>},
              !.bytes_received = @ + data_size]

\* The dictionary update: a segment is tracked the first time it is received.
TrackSegment(u, curr_segment, data_size) ==
    IF curr_segment \notin Keys(u.segments_received)
    THEN [u EXCEPT !.segments_received = @ \cup {<<curr_segment, data_size>>},
                   !.bytes_received = @ + data_size]
    ELSE u

\* The loop's exit test after a valid Payload, time.time() read at tick t.
LoopEnds(u, t) ==
    \/ Cardinality(Keys(u.segments_received)) >= u.total_segments
    \/ t - u.last_received >= IDLE_GAP

\* One pass of the receive loop on datagram d, received at tick t0; the
\* exit test reads the clock at tick t1.
UdpOnDatagram(u, d, t0, t1) ==
    LET received_data == RecvFrom(d, CONST_SIZE * 4)
        u1 == [u EXCEPT !.received_data = received_data, !.delivered = @ + 1,
                        !.now = t0, !.last_received = t0]
        h == UnpackPayload(received_data)
    IN  IF ~h.ok THEN UdpAbort(u1)
        ELSE LET u2 == [u1 EXCEPT !.total_segments = h.total_segments]
             IN  IF h.magic_cookie # MAGIC_COOKIE \/ h.message_type # MTYPE_PAYLOAD
                 THEN u2
                 ELSE LET u3 == TrackSegment(u2, h.curr_segment,
                                             DLen(received_data) - HEADER_SIZE)
                          u4 == [u3 EXCEPT !.now = t1, !.last_segment = t0]
                      IN  IF LoopEnds(u4, t1) THEN UdpStatistics(u4) ELSE u4

\* The thread starts: socket, settimeout, the Request, the counters.
UdpStart(s) ==
    /\ udp[s].pc = "start"
    /\ \E fault \in {"none", "socket", "sendto"} :
         udp' = [udp EXCEPT ![s] =
                   CASE fault = "socket" -> UdpAbort(@)
                     [] fault = "sendto" -> UdpAbort([@ EXCEPT !.sock = "open"])
                     [] OTHER ->
                          [@ EXCEPT !.pc = "recv", !.sock = "open",
                                    !.request = <<PackRequest(MAGIC_COOKIE, MTYPE_REQUEST,
                                                              udp[s].file_size)>>,
                                    !.total_segments = CeilSegments(udp[s].file_size)]]
    /\ UNCHANGED <<cli, tcp, conn, srvtcp, srvudp, srv>>

\* recvfrom returns a datagram of strays or of the server's reply after w
\* ticks (less than the timeout); the thread is held up for late ticks
\* between reading the clock and the exit test.  The model follows the
\* session for limit datagrams.
UdpReceive(s, strays, waits, lates, limit) ==
    /\ udp[s].pc = "recv"
    /\ udp[s].delivered < limit
    /\ \E d \in ServerPayloads(udp[s].file_size) \cup strays,
          w \in waits, late \in lates :
         /\ udp[s].now + w + late <= MaxTime
         /\ udp' = [udp EXCEPT ![s] =
                      UdpOnDatagram(@, d, @.now + w, @.now + w + late)]
    /\ UNCHANGED <<cli, tcp, conn, srvtcp, srvudp, srv>>

\* The timeout that ends the loop whether or not a segment was received.
UdpTimeoutStops(s) ==
    /\ udp[s].pc = "recv"
    /\ udp[s].now + RECV_TIMEOUT <= MaxTime
    /\ udp' = [udp EXCEPT ![s] = UdpStatistics([@ EXCEPT !.now = @ + RECV_TIMEOUT])]
    /\ UNCHANGED <<cli, tcp, conn, srvtcp, srvudp, srv>>

\* recvfrom raises socket.timeout: the loop ends if a segment was received.
UdpTimeout(s) ==
    /\ udp[s].pc = "recv"
    /\ udp[s].now + RECV_TIMEOUT <= MaxTime
    /\ udp' = [udp EXCEPT ![s] =
                 LET u1 == [@ EXCEPT !.now = @ + RECV_TIMEOUT]
                 IN  IF u1.segments_received # {} THEN UdpStatistics(u1) ELSE u1]
    /\ UNCHANGED <<cli, tcp, conn, srvtcp, srvudp, srv>>

\* recvfrom raises another OSError: the session is aborted.
UdpFault(s) ==
    /\ udp[s].pc = "recv"
    /\ udp' = [udp EXCEPT ![s] = UdpAbort(@)]
    /\ UNCHANGED <<cli, tcp, conn, srvtcp, srvudp, srv>>

\* ------------------------------------------------- the TCP request text

DigitChars == <<"0", "1", "2", "3", "4", "5", "6", "7", "8", "9">>
Whitespace == {"\n", "\r", "\t", " "}

RECURSIVE Decimal(_)
\* str(n) for n >= 0.
Decimal(n) ==
    IF n < 10 THEN <<DigitChars[n + 1]>>
    ELSE Decimal(n \div 10) \o <<DigitChars[(n % 10) + 1]>>

\* f"{file_size}\n".encode()
RequestText(file_size) ==
    (IF file_size < 0 THEN <<"-">> \o Decimal(0 - file_size) ELSE Decimal(file_size))
        \o <<"\n">>

RECURSIVE Strip(_)
\* str.strip(): whitespace is dropped at both ends.
Strip(t) ==
    IF t = <<>> THEN t
    ELSE IF t[1] \in Whitespace THEN Strip(Tail(t))
    ELSE IF t[Len(t)] \in Whitespace THEN Strip(SubSeq(t, 1, Len(t) - 1))
    ELSE t

DigitValue(c) == CHOOSE v \in 0 .. 9 : DigitChars[v + 1] = c

IsDigit(c) == \E v \in 0 .. 9 : DigitChars[v + 1] = c

RECURSIVE DecimalValue(_)
\* The value of the digits of t; the underscores between them do not count.
DecimalValue(t) ==
    IF t = <<>> THEN 0
    ELSE IF t[Len(t)] = "_" THEN DecimalValue(SubSeq(t, 1, Len(t) - 1))
    ELSE DecimalValue(SubSeq(t, 1, Len(t) - 1)) * 10 + DigitValue(t[Len(t)])

\* The digits int() accepts: decimal digits, with single underscores
\* between them.
IsDigits(t) ==
    /\ t # <<>>
    /\ \A i \in 1 .. Len(t) :
         \/ IsDigit(t[i])
         \/ /\ t[i] = "_"
            /\ 1 < i /\ i < Len(t)
            /\ IsDigit(t[i - 1]) /\ IsDigit(t[i + 1])

\* int(text): an optional sign and digits, ValueError otherwise.
ParseInt(t) ==
    IF IsDigits(t) THEN [ok |-> TRUE, value |-> DecimalValue(t)]
    ELSE IF t # <<>> /\ t[1] \in {"+", "-"} /\ IsDigits(Tail(t))
    THEN [ok |-> TRUE,
          value |-> IF t[1] = "-" THEN 0 - DecimalValue(Tail(t)) ELSE DecimalValue(Tail(t))]
    ELSE [ok |-> FALSE]

\* ------------------------------------------------- TCP connections

\* chunk_size = CONST_SIZE * 8, in the client and in the server.
ChunkSize == CONST_SIZE * 8

\* A connection that no client has opened.
NoConn ==
    [state |-> "none", c2s |-> <<>>, s2c |-> 0,
     client_closed |-> FALSE, server_closed |-> FALSE, reset |-> FALSE]

\* How many bytes one recv may return when n are asked for and available:
\* all of them, or fewer.
ReadSizes(n) == {n} \cup (IF n > 1 THEN {n \div 2} ELSE {})

\* ------------------------------------------------- TCP transfer client

TcpIdle ==
    [pc |-> "idle", sock |-> "none", server_ip |-> "", tcp_port |-> 0,
     file_size |-> 0, bytes_received |-> 0,
     outcome |-> "none", result |-> NoResult]

\* The except and finally of manage_tcp_connection.
TcpAbort(t) ==
    [t EXCEPT !.pc = "done", !.outcome = "error",
              !.sock = IF t.sock = "open" THEN "closed" ELSE t.sock]

\* The statistics after the loop, from the bytes received.
TcpStatistics(t) ==
    [t EXCEPT !.pc = "done", !.outcome = "result", !.sock = "closed",
              !.result = [kind |-> "tcp", bytes_received |-> t.bytes_received]]

\* What recv does to the session: the bytes are counted and the loop goes
\* on while fewer than file_size were received; an empty read ends it.
TcpOnRecv(t, n) ==
    LET t1 == [t EXCEPT !.bytes_received = @ + n]
    IN  IF n = 0 \/ ~(t1.bytes_received < t1.file_size) THEN TcpStatistics(t1) ELSE t1

\* The thread starts: socket, connect, the request line.
TcpStart(s, faults) ==
    /\ tcp[s].pc = "start"
    /\ \E fault \in faults :
         /\ tcp' = [tcp EXCEPT ![s] =
                      CASE fault = "socket" -> TcpAbort(@)
                        [] fault \in {"connect", "sendall"} ->
                             TcpAbort([@ EXCEPT !.sock = "open"])
                        [] OTHER -> [@ EXCEPT !.pc = "recv", !.sock = "open"]]
         /\ conn' = [conn EXCEPT ![s] =
                       CASE fault \in {"socket", "connect"} -> @
                         [] fault = "sendall" ->
                              [NoConn EXCEPT !.state = "open", !.client_closed = TRUE]
                         [] OTHER ->
                              [NoConn EXCEPT !.state = "open",
                                             !.c2s = RequestText(tcp[s].file_size)]]
    /\ UNCHANGED <<cli, udp, srvtcp, srvudp, srv>>

\* One recv of the loop: it raises on a reset connection, returns bytes in
\* flight (bytes that arrived before a reset may still be read), or
\* returns nothing once the peer has closed. The close in the finally
\* drops what was still unread.
TcpRecv(s) ==
    /\ tcp[s].pc = "recv"
    /\ LET c == conn[s]
           want == Min(ChunkSize, tcp[s].file_size - tcp[s].bytes_received)
       IN  \/ /\ c.reset
              /\ tcp' = [tcp EXCEPT ![s] = TcpAbort(@)]
              /\ conn' = [conn EXCEPT ![s].client_closed = TRUE, ![s].s2c = 0]
           \/ /\ c.s2c > 0
              /\ \E n \in ReadSizes(Min(want, c.s2c)) :
                   /\ tcp' = [tcp EXCEPT ![s] = TcpOnRecv(@, n)]
                   /\ conn' = [conn EXCEPT ![s].s2c = @ - n,
                                           ![s].client_closed =
                                              TcpOnRecv(tcp[s], n).pc = "done"]
           \/ /\ ~c.reset /\ c.s2c = 0 /\ c.server_closed
              /\ tcp' = [tcp EXCEPT ![s] = TcpOnRecv(@, 0)]
              /\ conn' = [conn EXCEPT ![s].client_closed = TRUE]
    /\ UNCHANGED <<cli, udp, srvtcp, srvudp, srv>>

\* ------------------------------------------------- TCP transfer server

SrvTcpIdle ==
    [pc |-> "idle", sock |-> "none", received_data |-> <<>>, total_file_size |-> 0,
     bytes_transferred |-> 0, outcome |-> "none"]

\* The finally of process_tcp_connection, with what was logged on the way.
SrvTcpClose(h, outcome) ==
    [h EXCEPT !.pc = "done", !.sock = "closed", !.outcome = outcome]

\* The request as the handler parses it: int(received.decode().strip()).
SrvTcpParse(received) == ParseInt(Strip(received))

\* How many of the available request bytes the handler's one recv returns.
SrvTcpReadSizes(available) == 1 .. Min(CONST_SIZE, available)

\* run_server accepts the connection and starts its handler thread.
SrvTcpAccept(s) ==
    /\ conn[s].state = "open"
    /\ srvtcp[s].pc = "idle"
    /\ srvtcp' = [srvtcp EXCEPT ![s] = [SrvTcpIdle EXCEPT !.pc = "read", !.sock = "open"]]
    /\ UNCHANGED <<cli, tcp, udp, conn, srvudp, srv>>

\* The handler's recv and int(): the size is parsed from the bytes this one
\* recv returned; a size that is not positive sends nothing.
SrvTcpRead(s) ==
    /\ srvtcp[s].pc = "read"
    /\ LET c == conn[s]
       IN  \/ /\ c.reset
              /\ srvtcp' = [srvtcp EXCEPT ![s] = SrvTcpClose(@, "crash")]
              /\ conn' = [conn EXCEPT ![s].server_closed = TRUE]
           \/ /\ ~c.reset /\ c.c2s # <<>>
              /\ \E k \in SrvTcpReadSizes(Len(c.c2s)) :
                   LET p == SrvTcpParse(SubSeq(c.c2s, 1, k))
                       more == p.ok /\ 0 < p.value
                       h == [srvtcp[s] EXCEPT !.received_data = Strip(SubSeq(c.c2s, 1, k))]
                   IN  /\ srvtcp' = [srvtcp EXCEPT ![s] =
                                       IF ~p.ok THEN SrvTcpClose(h, "invalid")
                                       ELSE IF more
                                       THEN [h EXCEPT !.pc = "send",
                                                      !.total_file_size = p.value]
                                       ELSE SrvTcpClose([h EXCEPT !.total_file_size = p.value],
                                                        "sent")]
                       /\ conn' = [conn EXCEPT ![s].c2s = SubSeq(@, k + 1, Len(@)),
                                               ![s].server_closed = ~more]
           \/ /\ ~c.reset /\ c.c2s = <<>> /\ c.client_closed
              /\ srvtcp' = [srvtcp EXCEPT ![s] = SrvTcpClose(@, "invalid")]
              /\ conn' = [conn EXCEPT ![s].server_closed = TRUE]
    /\ UNCHANGED <<cli, tcp, udp, srvudp, srv>>

\* One pass of the send loop: sendall of the next chunk; a failed sendall
\* (the connection was reset, or the client has closed) ends the loop.
SrvTcpSend(s) ==
    /\ srvtcp[s].pc = "send"
    /\ LET h == srvtcp[s]
           c == conn[s]
           current_chunk_size == Min(ChunkSize, h.total_file_size - h.bytes_transferred)
           h1 == [h EXCEPT !.bytes_transferred = @ + current_chunk_size]
           ends == ~(h1.bytes_transferred < h1.total_file_size)
       IN  IF c.reset \/ c.client_closed
           THEN /\ srvtcp' = [srvtcp EXCEPT ![s] = SrvTcpClose(h, "lost")]
                /\ conn' = [conn EXCEPT ![s].server_closed = TRUE]
           ELSE /\ srvtcp' = [srvtcp EXCEPT ![s] =
                                IF ends THEN SrvTcpClose(h1, "sent") ELSE h1]
                /\ conn' = [conn EXCEPT ![s].s2c = @ + current_chunk_size,
                                        ![s].server_closed = ends]
    /\ UNCHANGED <<cli, tcp, udp, srvudp, srv>>

\* ------------------------------------------------- UDP transfer server

SrvUdpIdle ==
    [pc |-> "idle", sock |-> "none", packet_data |-> <<>>, num_segments |-> 0,
     segments_list |-> <<>>, sent |-> <<>>, start_index |-> 0, segment_index |-> 0,
     pauses |-> 0, outcome |-> "none"]

\* The handler that ends without its finally.
SrvUdpEndOpen(g, outcome) == [g EXCEPT !.pc = "done", !.outcome = outcome]

\* The handler's thread ends: its socket, when it opened one, is closed.
SrvUdpEnd(g, outcome) ==
    [g EXCEPT !.pc = "done", !.outcome = outcome,
              !.sock = IF g.sock = "open" THEN "closed" ELSE g.sock]

\* A burst that runs to the end of the list.
BurstEndAll(g) == g.num_segments

\* Where the burst that starts at start_index ends:
\* min(start_index + burst_limit, num_segments).
BurstEnd(g) == Min(g.start_index + BURST_LIMIT, g.num_segments)

\* The handler from its entry to the first sendto: the Request is unpacked
\* and validated, the socket opened and the segments generated.
SrvUdpOnRequest(g) ==
    LET r == UnpackRequest(g.packet_data)
    IN  IF ~r.ok THEN SrvUdpEnd(g, "malformed")
        ELSE IF r.cookie # MAGIC_COOKIE \/ r.message_type # MTYPE_REQUEST
        THEN SrvUdpEnd(g, "ignored")
        ELSE LET g1 == [g EXCEPT !.num_segments = CeilSegments(r.file_size_bytes),
                                 !.segments_list = SegmentsList(r.file_size_bytes),
                                 !.sock = "open"]
             IN  IF g1.num_segments = 0 THEN SrvUdpEnd(g1, "sent")
                 ELSE [g1 EXCEPT !.pc = "send"]

SrvUdpStart ==
    /\ srvudp.pc = "start"
    /\ srvudp' = SrvUdpOnRequest(srvudp)
    /\ UNCHANGED <<cli, tcp, udp, conn, srvtcp, srv>>

\* One sendto of the inner loop; a failed sendto ends the handler.  After
\* the last segment of a burst comes the pause.
SrvUdpSendTo ==
    /\ srvudp.pc = "send"
    /\ \E failed \in BOOLEAN :
         srvudp' =
           IF failed THEN SrvUdpEnd(srvudp, "error")
           ELSE LET g1 == [srvudp EXCEPT
                             !.sent = Append(@, srvudp.segments_list[srvudp.segment_index + 1]),
                             !.segment_index = @ + 1]
                IN  IF g1.segment_index < BurstEnd(g1) THEN g1
                    ELSE [g1 EXCEPT !.pc = "pause"]
    /\ UNCHANGED <<cli, tcp, udp, conn, srvtcp, srv>>

\* time.sleep(0.001) after a burst, then the next burst or the end.
SrvUdpPause ==
    /\ srvudp.pc = "pause"
    /\ srvudp' =
         LET g1 == [srvudp EXCEPT !.start_index = @ + BURST_LIMIT, !.pauses = @ + 1]
         IN  IF g1.start_index < g1.num_segments THEN [g1 EXCEPT !.pc = "send"]
             ELSE SrvUdpEnd(g1, "sent")
    /\ UNCHANGED <<cli, tcp, udp, conn, srvtcp, srv>>

\* ------------------------------------------------- the peer of a TCP client

\* The peer sends some of the bytes the client still waits for.
PeerSend(s) ==
    /\ tcp[s].pc = "recv"
    /\ ~conn[s].server_closed /\ ~conn[s].reset
    /\ LET missing == tcp[s].file_size - tcp[s].bytes_received - conn[s].s2c
       IN  /\ missing > 0
           /\ \E n \in ReadSizes(missing) : conn' = [conn EXCEPT ![s].s2c = @ + n]
    /\ UNCHANGED <<cli, tcp, udp, srvtcp, srvudp, srv>>

\* The peer closes the connection, whatever it has sent.
PeerClose(s) ==
    /\ tcp[s].pc = "recv"
    /\ ~conn[s].server_closed /\ ~conn[s].reset
    /\ conn' = [conn EXCEPT ![s].server_closed = TRUE]
    /\ UNCHANGED <<cli, tcp, udp, srvtcp, srvudp, srv>>

\* The connection is reset.
PeerReset(s) ==
    /\ tcp[s].pc = "recv"
    /\ ~conn[s].reset
    /\ conn' = [conn EXCEPT ![s].reset = TRUE]
    /\ UNCHANGED <<cli, tcp, udp, srvtcp, srvudp, srv>>

\* ------------------------------------------------- the client's orchestrator

NoOffer == [ok |-> FALSE]

CliInit ==
    [pc |-> "input", file_size |-> 0, tcp_conn_num |-> 0, udp_conn_num |-> 0,
     listener |-> "none", offer_data |-> NoDatagram, sender_address |-> "",
     server |-> NoOffer, index |-> 0, cycled |-> FALSE]

\* The validation with < for <=: zero passes.
ValuesFromUserZero(size_text, tcp_text, udp_text) ==
    LET file_size == ParseInt(Strip(size_text))
        tcp_conn_num == ParseInt(Strip(tcp_text))
        udp_conn_num == ParseInt(Strip(udp_text))
    IN  IF ~file_size.ok \/ ~tcp_conn_num.ok \/ ~udp_conn_num.ok THEN [ok |-> FALSE]
        ELSE IF file_size.value < 0 \/ tcp_conn_num.value < 0 \/ udp_conn_num.value < 0
        THEN [ok |-> FALSE]
        ELSE [ok |-> TRUE, file_size |-> file_size.value,
              tcp_conn_num |-> tcp_conn_num.value, udp_conn_num |-> udp_conn_num.value]

\* values_from_user on three lines of input: int() of each, all positive.
ValuesFromUser(size_text, tcp_text, udp_text) ==
    LET file_size == ParseInt(Strip(size_text))
        tcp_conn_num == ParseInt(Strip(tcp_text))
        udp_conn_num == ParseInt(Strip(udp_text))
    IN  IF ~file_size.ok \/ ~tcp_conn_num.ok \/ ~udp_conn_num.ok THEN [ok |-> FALSE]
        ELSE IF file_size.value <= 0 \/ tcp_conn_num.value <= 0 \/ udp_conn_num.value <= 0
        THEN [ok |-> FALSE]
        ELSE [ok |-> TRUE, file_size |-> file_size.value,
              tcp_conn_num |-> tcp_conn_num.value, udp_conn_num |-> udp_conn_num.value]

\* The validation without the test of the message type.
OfferOfAnyType(offer_data, sender_address) ==
    LET o == UnpackOffer(offer_data)
    IN  IF ~o.ok THEN NoOffer
        ELSE IF o.magic_cookie = MAGIC_COOKIE
        THEN [ok |-> TRUE, server_ip |-> sender_address,
              udp_port |-> o.udp_port, tcp_port |-> o.tcp_port]
        ELSE NoOffer

\* What find_server_offer does with one datagram: the triple it returns, or
\* NoOffer when it keeps waiting.
OfferOf(offer_data, sender_address) ==
    LET o == UnpackOffer(offer_data)
    IN  IF ~o.ok THEN NoOffer
        ELSE IF o.magic_cookie = MAGIC_COOKIE /\ o.message_type = MTYPE_OFFER
        THEN [ok |-> TRUE, server_ip |-> sender_address,
              udp_port |-> o.udp_port, tcp_port |-> o.tcp_port]
        ELSE NoOffer

\* The thread list of a cycle: the TCP sessions, then the UDP sessions.
ThreadCount == cli.tcp_conn_num + cli.udp_conn_num
IsTcpThread(k) == k <= cli.tcp_conn_num
UdpOfThread(k) == k - cli.tcp_conn_num
ThreadPc(k) == IF IsTcpThread(k) THEN tcp[k].pc ELSE udp[UdpOfThread(k)].pc

\* A join that returns for any thread that was started.
JoinableOnceStarted(k) == ThreadPc(k) # "created"

\* A join that returns only for a thread that ended with a result.
JoinableIfResult(k) ==
    IF IsTcpThread(k) THEN tcp[k].pc = "done" /\ tcp[k].outcome = "result"
    ELSE udp[UdpOfThread(k)].pc = "done" /\ udp[UdpOfThread(k)].outcome = "result"

\* Thread.join returns once the thread has ended.
Joinable(k) == ThreadPc(k) = "done"

\* run_client asks the user until the values are valid.
CliInput(texts, counts) ==
    /\ cli.pc = "input"
    /\ \E size_text \in texts, tcp_text \in counts, udp_text \in counts :
         LET v == ValuesFromUser(size_text, tcp_text, udp_text)
         IN  cli' = IF v.ok
                    THEN [cli EXCEPT !.pc = "discover", !.file_size = v.file_size,
                                     !.tcp_conn_num = v.tcp_conn_num,
                                     !.udp_conn_num = v.udp_conn_num]
                    ELSE cli
    /\ UNCHANGED <<tcp, udp, conn, srvtcp, srvudp, srv>>

\* find_server_offer is entered: its socket is made and bound, and it has
\* received nothing yet.
CliListen ==
    /\ cli.pc = "discover"
    /\ cli' = [cli EXCEPT !.pc = "listen", !.listener = "bound", !.server = NoOffer,
                          !.offer_data = NoDatagram, !.sender_address = ""]
    /\ UNCHANGED <<tcp, udp, conn, srvtcp, srvudp, srv>>

\* One pass of find_server_offer's loop on a datagram d from sender: it
\* returns on a valid Offer and goes on waiting otherwise.
CliReceive(datagrams, senders) ==
    /\ cli.pc = "listen"
    /\ \E d \in datagrams, sender \in senders :
         LET offer_data == RecvFrom(d, CONST_SIZE)
             o == OfferOf(offer_data, sender)
         IN  cli' = [cli EXCEPT !.offer_data = offer_data, !.sender_address = sender,
                                !.server = o,
                                !.pc = IF o.ok THEN "create" ELSE "listen",
                                !.listener = IF o.ok THEN "none" ELSE @]
    /\ UNCHANGED <<tcp, udp, conn, srvtcp, srvudp, srv>>

\* The Thread objects of the cycle are made, none started.
CliCreate ==
    /\ cli.pc = "create"
    /\ tcp' = [s \in Sessions |->
                 IF s <= cli.tcp_conn_num
                 THEN [TcpIdle EXCEPT !.pc = "created", !.server_ip = cli.server.server_ip,
                                      !.tcp_port = cli.server.tcp_port,
                                      !.file_size = cli.file_size]
                 ELSE TcpIdle]
    /\ udp' = [s \in Sessions |->
                 IF s <= cli.udp_conn_num
                 THEN [UdpIdle EXCEPT !.pc = "created", !.server_ip = cli.server.server_ip,
                                      !.udp_port = cli.server.udp_port,
                                      !.file_size = cli.file_size]
                 ELSE UdpIdle]
    /\ conn' = [s \in Sessions |-> NoConn]
    /\ cli' = [cli EXCEPT !.pc = "start", !.index = 1]
    /\ UNCHANGED <<srvtcp, srvudp, srv>>

\* thread.start() of the next thread of the list.
CliStart ==
    /\ cli.pc = "start"
    /\ LET k == cli.index
       IN  /\ tcp' = IF IsTcpThread(k) THEN [tcp EXCEPT ![k].pc = "start"] ELSE tcp
           /\ udp' = IF IsTcpThread(k) THEN udp
                     ELSE [udp EXCEPT ![UdpOfThread(k)].pc = "start"]
           /\ cli' = IF k < ThreadCount THEN [cli EXCEPT !.index = k + 1]
                     ELSE [cli EXCEPT !.pc = "join", !.index = 1]
    /\ UNCHANGED <<conn, srvtcp, srvudp, srv>>

\* thread.join() of the next thread of the list; after the last one the
\* cycle is over (cycled): its threads and their connections are history,
\* and run_client goes back to find_server_offer.  A connection whose
\* server end is not finished with it stays.
CliJoin ==
    /\ cli.pc = "join"
    /\ Joinable(cli.index)
    /\ IF cli.index < ThreadCount
       THEN /\ cli' = [cli EXCEPT !.index = @ + 1]
            /\ UNCHANGED <<tcp, udp, conn>>
       ELSE /\ cli' = [cli EXCEPT !.pc = "discover", !.index = 0,
                                  !.cycled = TRUE]
            /\ tcp' = [s \in Sessions |-> TcpIdle]
            /\ udp' = [s \in Sessions |-> UdpIdle]
            /\ conn' = [s \in Sessions |->
                          IF srv.pc # "off" /\ srvtcp[s].pc # "done" THEN conn[s]
                          ELSE NoConn]
    /\ UNCHANGED <<srvtcp, srvudp, srv>>

\* ------------------------------------------------- run_server

\* No server process: the transfer sessions run against a peer or alone.
SrvOff ==
    [pc |-> "off", udp_port |-> 0, tcp_port |-> 0, datagrams |-> <<>>,
     broadcast |-> [pc |-> "off", sock |-> "none", offer_packet |-> NoDatagram,
                    sent |-> {}]]

\* run_server up to its loop: the ports are allocated, the broadcaster's
\* thread is started, the two sockets are bound.
SrvUp(udp_port, tcp_port) ==
    [SrvOff EXCEPT !.pc = "accept", !.udp_port = udp_port, !.tcp_port = tcp_port,
                   !.broadcast.pc = "start"]

\* The broadcaster's thread ends: the with statement closes its socket.
BroadcastEnd(b) ==
    [b EXCEPT !.pc = "ended", !.sock = IF b.sock = "open" THEN "closed" ELSE b.sock]

\* offer_broadcast up to its loop: the Offer is packed, the socket made.
BroadcastStart ==
    /\ srv.broadcast.pc = "start"
    /\ \E failed \in BOOLEAN :
         srv' = [srv EXCEPT !.broadcast =
                   LET b == [@ EXCEPT !.offer_packet =
                                        PackOffer(MAGIC_COOKIE, MTYPE_OFFER,
                                                  srv.udp_port, srv.tcp_port)]
                   IN  IF failed THEN BroadcastEnd(b)
                       ELSE [b EXCEPT !.pc = "send", !.sock = "open"]]
    /\ UNCHANGED <<cli, tcp, udp, conn, srvtcp, srvudp>>

\* sendto of the loop: it sends the Offer, or raises, and nothing in
\* offer_broadcast catches what it raises.
BroadcastSendTo ==
    /\ srv.broadcast.pc = "send"
    /\ \E failed \in BOOLEAN :
         srv' = [srv EXCEPT !.broadcast =
                   IF failed THEN BroadcastEnd(@)
                   ELSE [@ EXCEPT !.pc = "sleep", !.sent = @ \cup {srv.broadcast.offer_packet}]]
    /\ UNCHANGED <<cli, tcp, udp, conn, srvtcp, srvudp>>

\* time.sleep(1), then the next pass.
BroadcastSleep ==
    /\ srv.broadcast.pc = "sleep"
    /\ srv' = [srv EXCEPT !.broadcast.pc = "send"]
    /\ UNCHANGED <<cli, tcp, udp, conn, srvtcp, srvudp>>

\* The loop whose listening socket was left blocking: accept returns only
\* when a connection is waiting.
RunServerAcceptBlocking ==
    /\ srv.pc = "accept"
    /\ \E s \in { r \in Sessions : conn[r].state = "open" /\ srvtcp[r].pc = "idle" } :
         srvtcp' = [srvtcp EXCEPT ![s] =
                      [SrvTcpIdle EXCEPT !.pc = "read", !.sock = "open"]]
    /\ srv' = [srv EXCEPT !.pc = "recvfrom"]
    /\ UNCHANGED <<cli, tcp, udp, conn, srvudp>>

\* The loop that goes back to accept only when no handler is running, as
\* it would after joining the thread it started.
RunServerAcceptJoined ==
    /\ srv.pc = "accept"
    /\ \A s \in Sessions : srvtcp[s].pc \notin {"read", "send"}
    /\ LET pending == { s \in Sessions : conn[s].state = "open" /\ srvtcp[s].pc = "idle" }
       IN  IF pending = {} THEN UNCHANGED srvtcp
           ELSE \E s \in pending :
                  srvtcp' = [srvtcp EXCEPT ![s] =
                               [SrvTcpIdle EXCEPT !.pc = "read", !.sock = "open"]]
    /\ srv' = [srv EXCEPT !.pc = "recvfrom"]
    /\ UNCHANGED <<cli, tcp, udp, conn, srvudp>>

\* The connections waiting on the listening socket.
PendingConnections == { s \in Sessions : conn[s].state = "open" /\ srvtcp[s].pc = "idle" }

\* The loop's accept in non-blocking mode: a waiting connection gets a
\* handler thread of its own, started and not waited for; with none waiting
\* accept raises BlockingIOError, which is passed over.
RunServerAccept ==
    /\ srv.pc = "accept"
    /\ IF PendingConnections = {} THEN UNCHANGED srvtcp
       ELSE \E s \in PendingConnections :
              srvtcp' = [srvtcp EXCEPT ![s] =
                           [SrvTcpIdle EXCEPT !.pc = "read", !.sock = "open"]]
    /\ srv' = [srv EXCEPT !.pc = "recvfrom"]
    /\ UNCHANGED <<cli, tcp, udp, conn, srvudp>>

\* The loop's recvfrom in non-blocking mode: a waiting datagram gets a
\* handler thread of its own; with none waiting recvfrom raises
\* BlockingIOError.  Then the next pass of the loop.
RunServerRecvFrom ==
    /\ srv.pc = "recvfrom"
    /\ IF srv.datagrams = <<>>
       THEN /\ srv' = [srv EXCEPT !.pc = "accept"]
            /\ UNCHANGED srvudp
       ELSE /\ srv' = [srv EXCEPT !.pc = "accept", !.datagrams = Tail(@)]
            /\ srvudp' = [SrvUdpIdle EXCEPT !.pc = "start",
                                            !.packet_data =
                                               RecvFrom(Head(srv.datagrams), CONST_SIZE)]
    /\ UNCHANGED <<cli, tcp, udp, conn, srvtcp>>

\* Another exception in the loop's body (accept or recvfrom fails): it is
\* printed and the loop starts its next pass.
RunServerError ==
    /\ srv.pc \in {"accept", "recvfrom"}
    /\ srv' = [srv EXCEPT !.pc = "accept"]
    /\ UNCHANGED <<cli, tcp, udp, conn, srvtcp, srvudp>>

\* ------------------------------------------------- the clients of a server

\* A client connects and sends text as its request.
ClientConnect(s, texts) ==
    /\ srv.pc # "off"
    /\ conn[s].state = "none"
    /\ \E text \in texts :
         conn' = [conn EXCEPT ![s] = [NoConn EXCEPT !.state = "open", !.c2s = text]]
    /\ UNCHANGED <<cli, tcp, udp, srvtcp, srvudp, srv>>

\* The client closes its end.
ClientClose(s) ==
    /\ conn[s].state = "open"
    /\ ~conn[s].client_closed /\ ~conn[s].reset
    /\ conn' = [conn EXCEPT ![s].client_closed = TRUE]
    /\ UNCHANGED <<cli, tcp, udp, srvtcp, srvudp, srv>>

\* The connection is reset.
ClientReset(s) ==
    /\ conn[s].state = "open"
    /\ ~conn[s].reset
    /\ conn' = [conn EXCEPT ![s].reset = TRUE]
    /\ UNCHANGED <<cli, tcp, udp, srvtcp, srvudp, srv>>

\* A datagram reaches the server's UDP port.  The model follows one UDP
\* handler at a time: the next datagram comes when the handler of the one
\* before has ended.
ClientDatagram(datagrams) ==
    /\ srv.pc # "off"
    /\ srv.datagrams = <<>>
    /\ srvudp.pc \in {"idle", "done"}
    /\ \E d \in datagrams : srv' = [srv EXCEPT !.datagrams = <<d>>]
    /\ UNCHANGED <<cli, tcp, udp, conn, srvtcp, srvudp>>

\* ------------------------------------------------- specifications

\* One UDP session against a network that delivers the server's reply, any
\* part of it, and stray datagrams.
UdpSizes == {1, CONST_SIZE + 1, 2 * CONST_SIZE + 1}

InitUdpClient ==
    /\ cli = [CliInit EXCEPT !.pc = "join"]
    /\ tcp = [s \in Sessions |-> TcpIdle]
    /\ \E size \in UdpSizes :
         udp = [s \in Sessions |->
                  IF s = 1 THEN [UdpIdle EXCEPT !.pc = "start", !.file_size = size]
                  ELSE UdpIdle]
    /\ conn = [s \in Sessions |-> NoConn]
    /\ srvtcp = [s \in Sessions |-> SrvTcpIdle]
    /\ srvudp = SrvUdpIdle
    /\ srv = SrvOff

NextUdpClient ==
    \/ UdpStart(1)
    \/ UdpReceive(1, StrayDatagrams, Waits, Lates, MaxDatagrams)
    \/ UdpTimeout(1)
    \/ UdpFault(1)

SpecUdpClient == InitUdpClient /\ [][NextUdpClient]_vars

\* One UDP session against a network that delivers the server's reply and,
\* at once or every 0.2 s, a datagram with a wrong cookie.
InitUdpStream == InitUdpClient

NextUdpStream ==
    \/ UdpStart(1)
    \/ UdpReceive(1, {BadCookie}, {0, RECV_TIMEOUT - 1}, {0}, MaxStream)
    \/ UdpTimeout(1)
    \/ UdpFault(1)

SpecUdpStream == InitUdpStream /\ [][NextUdpStream]_vars

\* Sizes a user asks for: one byte, two digits, the spec's 5000, and sizes
\* around one and two chunks.
TcpSizes == {1, 10, 5000, ChunkSize, ChunkSize + 1, 2 * ChunkSize + 1}

\* One TCP session against the server's handler over a lossless path.
InitTcp ==
    /\ cli = [CliInit EXCEPT !.pc = "join"]
    /\ \E size \in TcpSizes :
         tcp = [s \in Sessions |->
                  IF s = 1 THEN [TcpIdle EXCEPT !.pc = "start", !.file_size = size]
                  ELSE TcpIdle]
    /\ udp = [s \in Sessions |-> UdpIdle]
    /\ conn = [s \in Sessions |-> NoConn]
    /\ srvtcp = [s \in Sessions |-> SrvTcpIdle]
    /\ srvudp = SrvUdpIdle
    /\ srv = SrvOff

NextTcp ==
    \/ TcpStart(1, {"none"})
    \/ TcpRecv(1)
    \/ SrvTcpAccept(1)
    \/ SrvTcpRead(1)
    \/ SrvTcpSend(1)

SpecTcp == InitTcp /\ [][NextTcp]_vars

\* Sizes a UDP Request may carry, up to one segment more than a burst.
RequestSizes ==
    {0, 1, CONST_SIZE - 1, CONST_SIZE, CONST_SIZE + 1, 2 * CONST_SIZE, 2 * CONST_SIZE + 1,
     BURST_LIMIT * CONST_SIZE, BURST_LIMIT * CONST_SIZE + 1,
     2 * BURST_LIMIT * CONST_SIZE + 1}

\* Datagrams that may reach the server's UDP port: Requests, and datagrams
\* with a wrong cookie, a wrong type or a wrong length.
RequestDatagrams ==
    { PackRequest(MAGIC_COOKIE, MTYPE_REQUEST, size) : size \in RequestSizes }
    \cup { PackRequest(<<0, 0, 0, 0>>, MTYPE_REQUEST, CONST_SIZE),
           PackRequest(MAGIC_COOKIE, MTYPE_PAYLOAD, CONST_SIZE),
           PackOffer(MAGIC_COOKIE, MTYPE_OFFER, 2000, 2001),
           [bytes |-> PackRequest(MAGIC_COOKIE, MTYPE_REQUEST, CONST_SIZE).bytes \o <<0>>,
            pad |-> 0] }

\* The server's UDP handler on one datagram that run_server received.
InitUdpServer ==
    /\ cli = [CliInit EXCEPT !.pc = "join"]
    /\ tcp = [s \in Sessions |-> TcpIdle]
    /\ udp = [s \in Sessions |-> UdpIdle]
    /\ conn = [s \in Sessions |-> NoConn]
    /\ srvtcp = [s \in Sessions |-> SrvTcpIdle]
    /\ \E d \in RequestDatagrams :
         srvudp = [SrvUdpIdle EXCEPT !.pc = "start", !.packet_data = RecvFrom(d, CONST_SIZE)]
    /\ srv = SrvOff

NextUdpServer ==
    \/ SrvUdpStart
    \/ SrvUdpSendTo
    \/ SrvUdpPause

SpecUdpServer == InitUdpServer /\ [][NextUdpServer]_vars

\* What a user may type for the file size and for the connection counts.
SizeTexts == {<<"0">>, <<"-", "1">>, <<"x">>, <<"1">>, <<"1", "\n">>}
CountTexts == {<<>>} \cup { Decimal(n) : n \in 0 .. MaxConn }

\* Datagrams that may reach the discovery port: the server's Offer, and
\* datagrams with a wrong cookie, a wrong type or a wrong length.
GoodOffer == PackOffer(MAGIC_COOKIE, MTYPE_OFFER, 2000, 2001)
OfferDatagrams ==
    { GoodOffer,
      PackOffer(<<171, 205, 220, 187>>, MTYPE_OFFER, 2002, 2003),
      PackOffer(MAGIC_COOKIE, MTYPE_REQUEST, 2004, 2005),
      [bytes |-> SubSeq(GoodOffer.bytes, 1, OFFER_SIZE - 1), pad |-> 0],
      [bytes |-> GoodOffer.bytes \o <<0>>, pad |-> 0],
      PackRequest(MAGIC_COOKIE, MTYPE_REQUEST, CONST_SIZE) }
Senders == {"10.0.0.1", "10.0.0.2"}

\* The client: run_client and the sessions of its cycles. A TCP session runs
\* against a peer that sends, closes or resets; a UDP session hears nothing
\* and ends by the idle gap or by a socket error (SpecUdpClient has the
\* datagrams).
Init ==
    /\ cli = CliInit
    /\ tcp = [s \in Sessions |-> TcpIdle]
    /\ udp = [s \in Sessions |-> UdpIdle]
    /\ conn = [s \in Sessions |-> NoConn]
    /\ srvtcp = [s \in Sessions |-> SrvTcpIdle]
    /\ srvudp = SrvUdpIdle
    /\ srv = SrvOff

Next ==
    \/ CliInput(SizeTexts, CountTexts)
    \/ CliListen
    \/ CliReceive(OfferDatagrams, Senders)
    \/ CliCreate
    \/ CliStart
    \/ CliJoin
    \/ \E s \in Sessions :
         \/ TcpStart(s, {"none", "socket", "connect", "sendall"})
         \/ TcpRecv(s)
         \/ PeerSend(s)
         \/ PeerClose(s)
         \/ PeerReset(s)
         \/ UdpStart(s)
         \/ UdpTimeout(s)
         \/ UdpFault(s)

Spec == Init /\ [][Next]_vars

\* One TCP session against a peer that sends, closes or resets as it likes.
InitTcpClient == InitTcp

NextTcpClient ==
    \/ TcpStart(1, {"none", "socket", "connect", "sendall"})
    \/ TcpRecv(1)
    \/ PeerSend(1)
    \/ PeerClose(1)
    \/ PeerReset(1)

SpecTcpClient == InitTcpClient /\ [][NextTcpClient]_vars

\* What a client may send as its request: sizes of one byte and of a chunk
\* and a byte, a negative size, text that is no number, digits with an
\* underscore, and nothing.
ServerTexts ==
    { RequestText(1), RequestText(ChunkSize + 1), RequestText(0 - 1),
      <<"x", "\n">>, <<"1", "_", "0", "\n">>, <<>> }

\* Datagrams that may reach the server's UDP port.
ServerDatagrams ==
    { PackRequest(MAGIC_COOKIE, MTYPE_REQUEST, 1),
      PackRequest(MAGIC_COOKIE, MTYPE_REQUEST, CONST_SIZE + 1),
      PackRequest(<<0, 0, 0, 0>>, MTYPE_REQUEST, CONST_SIZE),
      PackOffer(MAGIC_COOKIE, MTYPE_OFFER, 2000, 2001) }

\* The ports allocate_port may find free, for UDP and for TCP.
PortPairs == {<<1025, 1025>>, <<2000, 2001>>}

\* The server: run_server's loop, the broadcaster and the handlers, against
\* clients that connect, send, close and reset as they like.
InitServer ==
    /\ cli = CliInit
    /\ tcp = [s \in Sessions |-> TcpIdle]
    /\ udp = [s \in Sessions |-> UdpIdle]
    /\ conn = [s \in Sessions |-> NoConn]
    /\ srvtcp = [s \in Sessions |-> SrvTcpIdle]
    /\ srvudp = SrvUdpIdle
    /\ \E ports \in PortPairs : srv = SrvUp(ports[1], ports[2])

NextServer ==
    \/ BroadcastStart
    \/ BroadcastSendTo
    \/ BroadcastSleep
    \/ RunServerAccept
    \/ RunServerRecvFrom
    \/ RunServerError
    \/ ClientDatagram(ServerDatagrams)
    \/ SrvUdpStart
    \/ SrvUdpSendTo
    \/ SrvUdpPause
    \/ \E s \in Sessions :
         \/ ClientConnect(s, ServerTexts)
         \/ ClientClose(s)
         \/ ClientReset(s)
         \/ SrvTcpRead(s)
         \/ SrvTcpSend(s)

SpecServer == InitServer /\ [][NextServer]_vars

\* The dispatch loop and the handlers, against clients that connect with a
\* size or with text that is no number, close, reset, and send Requests and
\* other datagrams.
DispatchTexts == { RequestText(ChunkSize + 1), <<"x", "\n">> }
DispatchDatagrams ==
    { PackRequest(MAGIC_COOKIE, MTYPE_REQUEST, CONST_SIZE + 1),
      PackOffer(MAGIC_COOKIE, MTYPE_OFFER, 2000, 2001) }

InitDispatch ==
    /\ cli = CliInit
    /\ tcp = [s \in Sessions |-> TcpIdle]
    /\ udp = [s \in Sessions |-> UdpIdle]
    /\ conn = [s \in Sessions |-> NoConn]
    /\ srvtcp = [s \in Sessions |-> SrvTcpIdle]
    /\ srvudp = SrvUdpIdle
    /\ srv = SrvUp(2000, 2001)

NextDispatch ==
    \/ RunServerAccept
    \/ RunServerRecvFrom
    \/ RunServerError
    \/ ClientDatagram(DispatchDatagrams)
    \/ SrvUdpStart
    \/ SrvUdpSendTo
    \/ SrvUdpPause
    \/ \E s \in Sessions :
         \/ ClientConnect(s, DispatchTexts)
         \/ ClientClose(s)
         \/ ClientReset(s)
         \/ SrvTcpRead(s)
         \/ SrvTcpSend(s)

SpecDispatch == InitDispatch /\ [][NextDispatch]_vars

\* The dispatch loop against clients that connect and send datagrams and
\* then only read.  The loop's thread keeps running, and a poll that raised
\* does not raise for ever: each of the two polls is made, and returns,
\* again and again.  Nothing is assumed of the clients or of the handlers.
NextPolling ==
    \/ RunServerAccept
    \/ RunServerRecvFrom
    \/ RunServerError
    \/ ClientDatagram(DispatchDatagrams)
    \/ SrvUdpStart
    \/ SrvUdpSendTo
    \/ SrvUdpPause
    \/ \E s \in Sessions :
         \/ ClientConnect(s, DispatchTexts)
         \/ SrvTcpRead(s)
         \/ SrvTcpSend(s)

SpecPolling ==
    /\ InitDispatch
    /\ [][NextPolling]_vars
    /\ WF_vars(RunServerAccept)
    /\ SF_vars(RunServerRecvFrom)

\* A client and a server together, for one cycle of the client: the
\* client has its input and an Offer, its TCP sessions connect to the
\* server's listening socket and its Requests reach the server's UDP port,
\* among datagrams of other senders; a connection may be reset, a connect
\* or a send may fail, and a UDP session hears the server's reply or a
\* datagram too short for a header.
SystemSizes == {1}
\* The numbers of TCP and of UDP sessions of the cycle.
SystemCounts == { c \in Sessions \X Sessions : c[1] + c[2] <= MaxConn + 1 }
SystemDatagrams ==
    { udp[s].request[1] : s \in { r \in Sessions : udp[r].request # <<>> } }
    \cup { [bytes |-> PackRequest(MAGIC_COOKIE, MTYPE_REQUEST, CONST_SIZE).bytes \o <<0>>,
            pad |-> 0] }

InitSystem ==
    /\ \E size \in SystemSizes, c \in SystemCounts :
         cli = [CliInit EXCEPT !.pc = "create", !.file_size = size,
                               !.tcp_conn_num = c[1],
                               !.udp_conn_num = c[2],
                               !.offer_data = GoodOffer,
                               !.sender_address = "10.0.0.1",
                               !.server = OfferOf(GoodOffer, "10.0.0.1")]
    /\ tcp = [s \in Sessions |-> TcpIdle]
    /\ udp = [s \in Sessions |-> UdpIdle]
    /\ conn = [s \in Sessions |-> NoConn]
    /\ srvtcp = [s \in Sessions |-> SrvTcpIdle]
    /\ srvudp = SrvUdpIdle
    /\ srv = SrvUp(2000, 2001)

NextSystem ==
    \/ CliCreate
    \/ CliStart
    \/ CliJoin
    \/ RunServerAccept
    \/ RunServerRecvFrom
    \/ RunServerError
    \/ ClientDatagram(SystemDatagrams)
    \/ SrvUdpStart
    \/ SrvUdpSendTo
    \/ SrvUdpPause
    \/ \E s \in Sessions :
         \/ TcpStart(s, {"none", "socket", "connect", "sendall"})
         \/ TcpRecv(s)
         \/ PeerReset(s)
         \/ SrvTcpRead(s)
         \/ SrvTcpSend(s)
         \/ UdpStart(s)
         \/ UdpReceive(s, {ShortDatagram}, {0}, {0}, 1)
         \/ UdpFault(s)

SpecSystem == InitSystem /\ [][NextSystem]_vars

\* ------------------------------------------------- claims

\* C1: run_client leaves the join loop for the next find_server_offer only
\* when every thread of the cycle, TCP and UDP, has ended, whatever the
\* order in which the sessions ran and ended.
C1_JoinBarrier ==
    [][(cli.pc = "join" /\ cli'.pc # "join")
         => /\ cli'.pc = "discover"
            /\ \A s \in Sessions :
                 /\ s <= cli.tcp_conn_num => tcp[s].pc = "done"
                 /\ s <= cli.udp_conn_num => udp[s].pc = "done"]_vars

\* A second discovery wait has begun after a cycle whose sessions all ended.
C1_Witness == cli.pc = "listen" /\ cli.cycled

\* C2: over a lossless path, when the client session and the server's
\* handler have ended, the client has received exactly file_size bytes and
\* the server has sent exactly file_size bytes.
C2_ExactBytes ==
    (tcp[1].pc = "done" /\ srvtcp[1].pc = "done")
      => /\ tcp[1].outcome = "result"
         /\ tcp[1].bytes_received = tcp[1].file_size
         /\ srvtcp[1].bytes_transferred = tcp[1].file_size

\* The size of the Request the UDP handler was started on (0 when the
\* datagram is no valid Request).
RequestedSize ==
    LET d == srvudp.packet_data
    IN  IF DLen(d) = REQUEST_SIZE /\ SubSeq(d.bytes, 1, 4) = MAGIC_COOKIE
           /\ d.bytes[5] = MTYPE_REQUEST
        THEN BigEndian(SubSeq(d.bytes, 6, 13)) ELSE 0

RECURSIVE PayloadBytes(_)
\* The payload bytes of a sequence of Payload datagrams.
PayloadBytes(ds) ==
    IF ds = <<>> THEN 0 ELSE (DLen(ds[1]) - HEADER_SIZE) + PayloadBytes(Tail(ds))

\* C3: for a valid Request of size S > 0 the datagrams sent so far are
\* segments 0, 1, 2, ... in this order, each once, each with the header
\* cookie, type, total_segments = ceil(S / 1024) and its index, and with
\* min(1024, S - index * 1024) payload bytes; a handler that has sent them
\* all has sent ceil(S / 1024) datagrams carrying S bytes.
C3_Segments ==
    LET S == RequestedSize
        total == CHOOSE n \in 0 .. S : (n - 1) * CONST_SIZE < S /\ S <= n * CONST_SIZE
    IN  S > 0 =>
          /\ Len(srvudp.sent) <= total
          /\ \A k \in 1 .. Len(srvudp.sent) :
               LET d == srvudp.sent[k]
               IN  /\ SubSeq(d.bytes, 1, 4) = MAGIC_COOKIE
                   /\ d.bytes[5] = MTYPE_PAYLOAD
                   /\ BigEndian(SubSeq(d.bytes, 6, 13)) = total
                   /\ BigEndian(SubSeq(d.bytes, 14, 21)) = k - 1
                   /\ Len(d.bytes) = HEADER_SIZE
                   /\ d.pad = Min(CONST_SIZE, S - (k - 1) * CONST_SIZE)
                   /\ (k < total => d.pad = CONST_SIZE)
                   /\ d.pad > 0
          /\ srvudp.outcome = "sent"
               => Len(srvudp.sent) = total /\ PayloadBytes(srvudp.sent) = S

\* The handler has answered a Request of 1025 bytes with two segments, the
\* second of one byte.
C3_Witness ==
    /\ RequestedSize = CONST_SIZE + 1
    /\ srvudp.outcome = "sent"
    /\ Len(srvudp.sent) = 2
    /\ srvudp.sent[2].pad = 1

\* The segment indices a UDP client session has recorded.
SeenIndices(s) == { p[1] : p \in udp[s].segments_received }

\* C4: a UDP client session's reported percentage is in [0, 100] and is
\* (distinct indices / ceil(file_size / 1024)) x 100, and every recorded
\* index is in [0, ceil(file_size / 1024)).
C4_Percentage ==
    LET u == udp[1]
        total == (u.file_size + CONST_SIZE - 1) \div CONST_SIZE
    IN  u.outcome = "result" =>
          /\ 0 <= u.result.pct_num
          /\ u.result.pct_num <= 100 * u.result.pct_den
          /\ u.result.pct_num * total = Cardinality(SeenIndices(1)) * 100 * u.result.pct_den
          /\ \A i \in SeenIndices(1) : 0 <= i /\ i < total

RECURSIVE SizesOf(_)
\* The sizes recorded in segments_received, added up.
SizesOf(segs) ==
    IF segs = {} THEN 0
    ELSE LET p == CHOOSE q \in segs : TRUE IN p[2] + SizesOf(segs \ {p})

\* A valid Payload whose segment index the session has recorded already.
IsDuplicate(s, d) ==
    /\ DLen(d) >= HEADER_SIZE
    /\ SubSeq(d.bytes, 1, 4) = MAGIC_COOKIE
    /\ d.bytes[5] = MTYPE_PAYLOAD
    /\ BigEndian(SubSeq(d.bytes, 14, 21)) \in SeenIndices(s)

\* C5: in any state of the receive loop, receiving a valid Payload whose
\* index is already recorded leaves segments_received and bytes_received
\* as they are; each index is recorded once, and bytes_received is the sum
\* of the sizes recorded.
C5_DuplicateCountedOnce ==
    LET u == udp[1]
    IN  /\ Cardinality(u.segments_received) = Cardinality(SeenIndices(1))
        /\ u.bytes_received = SizesOf(u.segments_received)
        /\ u.pc = "recv" =>
             \A d \in ServerPayloads(u.file_size) \cup StrayDatagrams :
               IsDuplicate(1, d) =>
                 LET after == UdpOnDatagram(u, d, u.now, u.now)
                 IN  /\ after.segments_received = u.segments_received
                     /\ after.bytes_received = u.bytes_received

\* Segment 0 arrived with 1024 bytes and then again, in a datagram of 16
\* bytes: it is recorded once, with the bytes of its first arrival.
C5_Witness ==
    /\ udp[1].pc = "recv"
    /\ udp[1].received_data = RepeatedSegment
    /\ udp[1].segments_received = {<<0, CONST_SIZE>>}
    /\ udp[1].bytes_received = CONST_SIZE

\* What the last datagram find_server_offer received says, read from its
\* bytes.
IsOffer(d) ==
    /\ DLen(d) = OFFER_SIZE
    /\ SubSeq(d.bytes, 1, 4) = <<171, 205, 220, 186>>
    /\ d.bytes[5] = 2

\* C6: find_server_offer has returned a triple only if the datagram it
\* received last is an Offer of 9 bytes with the cookie and type 0x02, and
\* the triple is that datagram's sender and its two ports; after any other
\* datagram it is still listening and has returned nothing.
C6_OnlyValidOffers ==
    /\ cli.server.ok =>
         /\ IsOffer(cli.offer_data)
         /\ cli.server.server_ip = cli.sender_address
         /\ cli.server.udp_port = cli.offer_data.bytes[6] * 256 + cli.offer_data.bytes[7]
         /\ cli.server.tcp_port = cli.offer_data.bytes[8] * 256 + cli.offer_data.bytes[9]
    /\ (cli.offer_data # NoDatagram /\ ~IsOffer(cli.offer_data))
         => cli.pc = "listen" /\ ~cli.server.ok /\ cli.listener = "bound"
    /\ cli.pc \in {"create", "start", "join"} => cli.server.ok

\* find_server_offer has returned the server's Offer.
C6_Witness ==
    /\ cli.pc = "create"
    /\ cli.server = [ok |-> TRUE, server_ip |-> "10.0.0.2", udp_port |-> 2000,
                     tcp_port |-> 2001]

\* Whether the client has done anything on the network.
NetworkUsed ==
    \/ cli.listener # "none"
    \/ cli.server.ok
    \/ \E s \in Sessions :
         \/ tcp[s].pc # "idle"
         \/ udp[s].pc # "idle"
         \/ conn[s].state # "none"

\* C7: the client has opened no discovery socket and started no session
\* unless the user has supplied a file size greater than 0 (and connection
\* counts greater than 0); while it asks, nothing has touched the network.
C7_SizeValidatedFirst ==
    /\ NetworkUsed => cli.pc # "input" /\ cli.file_size > 0
    /\ cli.pc # "input" => cli.file_size > 0 /\ cli.tcp_conn_num > 0 /\ cli.udp_conn_num > 0

\* A session runs, with the size the user supplied.
C7_Witness ==
    /\ cli.pc = "join"
    /\ cli.file_size = 1
    /\ tcp[1].pc = "recv"
    /\ udp[1].pc = "recv"

\* C8: a TCP client session that sent its request and was cut short, by
\* the peer closing early or by a reset, has ended with a reported result
\* computed from the bytes it received.
C8_PartialResult ==
    LET t == tcp[1]
    IN  (t.pc = "done" /\ conn[1].c2s # <<>> /\ t.bytes_received < t.file_size)
          => /\ t.outcome = "result"
             /\ t.result = [kind |-> "tcp", bytes_received |-> t.bytes_received]

\* C9: a UDP client session does not end in an error on a datagram shorter
\* than the Payload header: it goes on receiving.
C9_MalformedIgnored ==
    LET u == udp[1]
    IN  (u.received_data # NoDatagram /\ DLen(u.received_data) < HEADER_SIZE)
          => u.pc = "recv" /\ u.outcome = "none"

\* A datagram of at least 21 bytes whose cookie or type is wrong.
IsMismatch(d) ==
    /\ d # NoDatagram
    /\ DLen(d) >= HEADER_SIZE
    /\ (SubSeq(d.bytes, 1, 4) # MAGIC_COOKIE \/ d.bytes[5] # MTYPE_PAYLOAD)

\* C10: the receipt of a datagram with a wrong cookie or a wrong type
\* leaves segments_received, bytes_received, total_segments and
\* last_received as they were.
C10_DiscardChangesNothing ==
    [][(udp'[1].delivered = udp[1].delivered + 1 /\ IsMismatch(udp'[1].received_data))
         => /\ udp'[1].segments_received = udp[1].segments_received
            /\ udp'[1].bytes_received = udp[1].bytes_received
            /\ udp'[1].total_segments = udp[1].total_segments
            /\ udp'[1].last_received = udp[1].last_received]_vars

\* A datagram of at least 21 bytes with the cookie and the Payload type.
IsValidPayload(d) ==
    /\ d # NoDatagram
    /\ DLen(d) >= HEADER_SIZE
    /\ SubSeq(d.bytes, 1, 4) = MAGIC_COOKIE
    /\ d.bytes[5] = MTYPE_PAYLOAD

\* ceil(requested_size / 1024) of session s, from the size it was given.
RequestedSegments(s) ==
    CHOOSE n \in 0 .. udp[s].file_size :
      (n - 1) * CONST_SIZE < udp[s].file_size /\ udp[s].file_size <= n * CONST_SIZE

\* C11: a loop pass on a valid Payload ends the receive loop at once when
\* the distinct indices recorded after it number total_segments, and, when
\* it ends the loop before the idle gap has passed, at least
\* ceil(file_size / 1024) distinct indices are recorded.
C11_StopsAtFullCompletion ==
    [][(/\ udp[1].pc = "recv"
        /\ udp'[1].delivered = udp[1].delivered + 1
        /\ IsValidPayload(udp'[1].received_data))
         => LET seen == Cardinality({ p[1] : p \in udp'[1].segments_received })
            IN  /\ seen = udp'[1].total_segments => udp'[1].pc = "done"
                /\ (udp'[1].pc = "done"
                    /\ udp'[1].now - udp'[1].last_received < IDLE_GAP)
                     => seen >= RequestedSegments(1)]_vars

\* A step of session 1 in which recvfrom timed out.
IsTimeoutStep ==
    /\ udp[1].pc = "recv"
    /\ udp'[1].delivered = udp[1].delivered
    /\ udp'[1].now = udp[1].now + RECV_TIMEOUT

C13_IdleGapStops ==
    \A s \in Sessions :
      (udp[s].pc = "recv" /\ udp[s].segments_received # {})
        => udp[s].now - udp[s].last_segment <= IDLE_GAP

\* C14: a broadcaster that has entered its loop stays in it, sending or
\* sleeping, whatever its sends did, and every Offer it has sent is the one
\* Offer with the ports allocated at startup.
C14_BroadcastsForever ==
    /\ srv.broadcast.sock # "none" => srv.broadcast.pc \in {"send", "sleep"}
    /\ srv.broadcast.sent \subseteq
         {PackOffer(MAGIC_COOKIE, MTYPE_OFFER, srv.udp_port, srv.tcp_port)}

\* A decimal number as text: an optional sign and decimal digits, nothing
\* else.
IsDecimalText(t) ==
    LET digits == IF t # <<>> /\ t[1] \in {"+", "-"} THEN Tail(t) ELSE t
    IN  /\ digits # <<>>
        /\ \A i \in 1 .. Len(digits) :
             digits[i] \in {"0", "1", "2", "3", "4", "5", "6", "7", "8", "9"}

\* C16: a TCP handler that has read a request that is no decimal number has
\* ended with the invalid-request outcome, has sent no byte on the
\* connection and has closed it.
C16_InvalidRequestAborts ==
    \A s \in Sessions :
      (/\ srvtcp[s].pc \in {"send", "done"}
       /\ srvtcp[s].outcome # "crash"
       /\ ~IsDecimalText(srvtcp[s].received_data))
        => /\ srvtcp[s].pc = "done"
           /\ srvtcp[s].outcome = "invalid"
           /\ srvtcp[s].bytes_transferred = 0
           /\ conn[s].s2c = 0
           /\ srvtcp[s].sock = "closed"

\* C17: a pass of the dispatch loop that finds a connection waiting starts
\* one handler, new, on one waiting connection and goes on to poll the UDP
\* socket; one that finds a datagram waiting starts one handler, new, on the
\* first 1024 bytes of that datagram and goes back to accept; handlers start
\* in no other way and none is started twice; and the loop's next poll can
\* always be made, whatever the handlers are doing.
C17_Dispatch ==
    [][/\ \A s \in Sessions :
            srvtcp'[s] # srvtcp[s] /\ srvtcp[s].pc = "idle"
              => /\ srv.pc = "accept" /\ srv'.pc = "recvfrom"
                 /\ conn[s].state = "open"
                 /\ srvtcp'[s] = [SrvTcpIdle EXCEPT !.pc = "read", !.sock = "open"]
                 /\ \A r \in Sessions \ {s} : srvtcp'[r] = srvtcp[r]
                 /\ srvudp' = srvudp
       /\ \A s \in Sessions : srvtcp[s].pc # "idle" => srvtcp'[s].pc \notin {"idle", "read"}
                                                         \/ srvtcp'[s] = srvtcp[s]
       /\ (srv.pc = "accept" /\ srv'.pc = "recvfrom" /\ PendingConnections # {})
            => \E s \in PendingConnections : srvtcp'[s].pc = "read"
       /\ srv'.datagrams # srv.datagrams /\ srv.datagrams # <<>>
            => /\ srv.pc = "recvfrom" /\ srv'.pc = "accept"
               /\ srv'.datagrams = Tail(srv.datagrams)
               /\ srvudp.pc \in {"idle", "done"}
               /\ srvudp' = [SrvUdpIdle EXCEPT
                               !.pc = "start",
                               !.packet_data = RecvFrom(Head(srv.datagrams), CONST_SIZE)]
               /\ srvtcp' = srvtcp
       /\ (srvudp'.pc = "start" /\ srvudp.pc # "start")
            => srv.datagrams # <<>> /\ srv'.datagrams = Tail(srv.datagrams)
       /\ srv.pc = "accept" => ENABLED RunServerAccept
       /\ srv.pc = "recvfrom" => ENABLED RunServerRecvFrom]_vars

\* The loop has started a UDP handler while the TCP handler it started
\* before is still sending.
C17_Witness ==
    /\ srvtcp[1].pc = "send"
    /\ srvtcp[1].bytes_transferred > 0
    /\ srvudp.pc = "start"
    /\ srv.pc = "accept"

IsValidRequest(d) ==
    /\ DLen(d) = REQUEST_SIZE
    /\ SubSeq(d.bytes, 1, 4) = MAGIC_COOKIE
    /\ d.bytes[5] = MTYPE_REQUEST

\* C19: the k-th datagram the UDP handler sends is a Payload with segment
\* index k - 1; at most 32 are sent between two pauses; a pause comes after
\* a burst of exactly 32, or after the last segment; and nothing is ever
\* sent for a datagram that is not a valid Request.
C19_Bursts ==
    [][/\ srvudp'.sent # srvudp.sent
            => /\ srvudp'.sent = Append(srvudp.sent, srvudp'.sent[Len(srvudp'.sent)])
               /\ srvudp'.pauses = srvudp.pauses
               /\ LET d == srvudp'.sent[Len(srvudp'.sent)]
                  IN  /\ IsValidPayload(d)
                      /\ BigEndian(SubSeq(d.bytes, 14, 21)) = Len(srvudp.sent)
               /\ Len(srvudp'.sent) - 32 * srvudp.pauses \in 1 .. 32
       /\ srvudp'.pauses # srvudp.pauses
            => /\ srvudp'.pauses = srvudp.pauses + 1
               /\ srvudp'.sent = srvudp.sent
               /\ Len(srvudp.sent) > 32 * srvudp.pauses
               /\ \/ Len(srvudp.sent) = 32 * srvudp'.pauses
                  \/ /\ Len(srvudp.sent) = srvudp.num_segments
                     /\ srvudp'.pc = "done"
       /\ ~IsValidRequest(srvudp'.packet_data)
            => srvudp'.sent = <<>> /\ srvudp'.sock = "none"]_vars

\* A transfer of 65 segments has been sent: two bursts of 32, each with
\* its pause, then the last segment and its pause.
C19_Witness ==
    /\ srvudp.pc = "done"
    /\ srvudp.outcome = "sent"
    /\ Len(srvudp.sent) = 65
    /\ srvudp.pauses = 3

TcpErrorStep(s) ==
    tcp[s].pc # "done" /\ tcp'[s].pc = "done" /\ tcp'[s].outcome = "error"
UdpErrorStep(s) ==
    udp[s].pc # "done" /\ udp'[s].pc = "done" /\ udp'[s].outcome = "error"
SrvTcpErrorStep(s) ==
    /\ srvtcp[s].pc # "done" /\ srvtcp'[s].pc = "done"
    /\ srvtcp'[s].outcome \in {"invalid", "crash", "lost"}
SrvUdpErrorStep ==
    /\ srvudp.pc # "done" /\ srvudp'.pc = "done"
    /\ srvudp'.outcome \in {"malformed", "ignored", "error"}

\* C15: a step that ends one session in error changes that session and
\* its own connection and nothing else: every other session of the client
\* and every handler of the server is as it was, with its connection, and
\* so are the orchestrator and the dispatch loop; the join of a thread that
\* has ended returns whatever its outcome, so the orchestrator goes on to
\* the next discovery once all have ended; and the dispatch loop's next
\* poll can always be made.
C15_ErrorsContained ==
    [][/\ \A s \in Sessions :
            /\ TcpErrorStep(s)
                 => /\ \A r \in Sessions \ {s} : tcp'[r] = tcp[r] /\ conn'[r] = conn[r]
                    /\ udp' = udp /\ cli' = cli
                    /\ srvtcp' = srvtcp /\ srvudp' = srvudp /\ srv' = srv
            /\ UdpErrorStep(s)
                 => /\ \A r \in Sessions \ {s} : udp'[r] = udp[r]
                    /\ tcp' = tcp /\ conn' = conn /\ cli' = cli
                    /\ srvtcp' = srvtcp /\ srvudp' = srvudp /\ srv' = srv
            /\ SrvTcpErrorStep(s)
                 => /\ \A r \in Sessions \ {s} : srvtcp'[r] = srvtcp[r] /\ conn'[r] = conn[r]
                    /\ srvudp' = srvudp /\ srv' = srv
                    /\ tcp' = tcp /\ udp' = udp /\ cli' = cli
       /\ SrvUdpErrorStep
            => /\ srvtcp' = srvtcp /\ conn' = conn
               /\ srv' = srv
               /\ tcp' = tcp /\ udp' = udp /\ cli' = cli
       /\ (cli.pc = "join" /\ ThreadPc(cli.index) = "done") => ENABLED CliJoin
       /\ srv.pc \in {"accept", "recvfrom"}
       /\ srv.pc = "accept" => ENABLED RunServerAccept
       /\ srv.pc = "recvfrom" => ENABLED RunServerRecvFrom]_vars

\* The TCP session was reset and ended in error, and so did its handler;
\* its sibling, the UDP session, got its result and the UDP handler sent
\* its reply; the orchestrator has joined the first thread and the
\* dispatch loop polls.
C15_Witness ==
    /\ cli.pc = "join" /\ cli.index = 2
    /\ tcp[1].pc = "done" /\ tcp[1].outcome = "error"
    /\ udp[1].pc = "done" /\ udp[1].outcome = "result"
    /\ srvtcp[1].pc = "done" /\ srvtcp[1].outcome \in {"crash", "lost"}
    /\ srvudp.pc = "done" /\ srvudp.outcome = "sent"
    /\ srv.pc = "accept"

\* C21: once the TCP handler has parsed its request, the text it parsed is
\* the decimal number the client sent before the line break and the size it
\* streams is that number, however the request's bytes were split across
\* reads; a handler that has sent everything has sent that many bytes.
C21_RequestReadToLineBreak ==
    srvtcp[1].pc \in {"send", "done"}
      => /\ srvtcp[1].received_data = Decimal(tcp[1].file_size)
         /\ srvtcp[1].total_file_size = tcp[1].file_size
         /\ (srvtcp[1].pc = "done" /\ srvtcp[1].outcome = "sent")
              => srvtcp[1].bytes_transferred = tcp[1].file_size

====
